---- MODULE Spec2Model ----
(***************************************************************************)
(* A model of picasso (src/picasso/picasso.py): an interactive ASCII-art   *)
(* drawing engine.  The state is that of one Picasso object and of the     *)
(* curses window it draws on; the actions are the steps of the session     *)
(* loop `picasso.issue_command(picasso.get_command())`.                    *)
(*                                                                         *)
(* A point is a record [x, y]; a cell of the window is the tuple <<x, y>>. *)
(* The window is the function from the cells that show a glyph to that     *)
(* glyph: a cell outside its domain is blank.  The window is assumed to    *)
(* have at least MAX_Y + 3 rows (the code writes its status line on row    *)
(* MAX_Y + 2 without asking for the height); its number of columns is the  *)
(* variable cols, the value of window.getmaxyx()[1].                       *)
(***************************************************************************)
EXTENDS Integers, Sequences, FiniteSets, TLC

\* ------------------------------------------------------------------ bounds
\* Numeric fields of the commands L, R and B are drawn from 0..MaxCoord, and
\* so are the small canvas sizes.
MaxCoord == 2
\* Number of commands read in one session.
MaxCmds == 3
\* Columns of the window in the sessions of Spec.
SurfaceWidth == 4
\* Columns of the window in the scripted session of SpecScenario.
ScenarioWidth == 80

\* Picasso.MAX_Y
MAX_Y == 28

Blank == " "

\* -------------------------------------------------------------------- Point
Point(x, y) == [x |-> x, y |-> y]

get_up(p) == Point(p.x, p.y - 1)

get_down(p) == Point(p.x, p.y + 1)

get_left(p) == Point(p.x - 1, p.y)

get_right(p) == Point(p.x + 1, p.y)

\* Point.touches: __eq__
PointTouches(p, q) == p.x = q.x /\ p.y = q.y

Cell(p) == <<p.x, p.y>>

\* --------------------------------------------------------------------- Line
Horizontal == "H"

Vertical == "V"

\* get_orientation returns None when the endpoints differ on both axes.
NoOrientation == "None"

get_orientation(p1, p2) ==
    IF p1.x = p2.x THEN Vertical
    ELSE IF p1.y = p2.y THEN Horizontal
    ELSE NoOrientation

get_length(o, p1, p2) ==
    IF o = Horizontal THEN p2.x - p1.x ELSE p2.y - p1.y

\* Line.__init__ without the reordering of the endpoints.
LineUnordered(a, b) ==
    [p1 |-> a, p2 |-> b, orientation |-> get_orientation(a, b),
     length |-> get_length(get_orientation(a, b), a, b)]

\* Line.__init__: the endpoints are swapped so that p1 is the smaller one on
\* the varying axis; a diagonal keeps the order it was given in.
Line(a, b) ==
    LET o == get_orientation(a, b)
        swap == \/ (o = Vertical /\ a.y > b.y)
                \/ (o = Horizontal /\ a.x > b.x)
        q1 == IF swap THEN b ELSE a
        q2 == IF swap THEN a ELSE b
    IN  [p1 |-> q1, p2 |-> q2, orientation |-> o,
         length |-> get_length(o, q1, q2)]

\* validate that accepts every line.
validateAny(l) == l.orientation \in {Horizontal, Vertical, NoOrientation}

validate(l) == l.orientation \in {Horizontal, Vertical}

\* The value Line.touches returns: True inside the span, None on the axis of
\* the line outside its span (the inner if falls through), False elsewhere.
LineTouchesValue(l, q) ==
    IF l.orientation = Vertical /\ q.x = l.p1.x
    THEN (IF l.p2.y >= q.y /\ q.y >= l.p1.y THEN "True" ELSE "None")
    ELSE IF l.orientation = Horizontal /\ q.y = l.p1.y
    THEN (IF l.p2.x >= q.x /\ q.x >= l.p1.x THEN "True" ELSE "None")
    ELSE "False"

\* touches that leaves out the far endpoint.
LineTouchesOpen(l, q) ==
    IF l.orientation = Vertical /\ q.x = l.p1.x
    THEN l.p2.y > q.y /\ q.y >= l.p1.y
    ELSE IF l.orientation = Horizontal /\ q.y = l.p1.y
    THEN l.p2.x > q.x /\ q.x >= l.p1.x
    ELSE FALSE

\* Line.touches: the branches that fall through return None, which is false.
LineTouches(l, q) ==
    IF l.orientation = Vertical /\ q.x = l.p1.x
    THEN l.p2.y >= q.y /\ q.y >= l.p1.y
    ELSE IF l.orientation = Horizontal /\ q.y = l.p1.y
    THEN l.p2.x >= q.x /\ q.x >= l.p1.x
    ELSE FALSE

\* --------------------------------------------------------------------- Rect
Canvas == "C"

Regular == "R"

\* Rect.__init__ from (x, y, width, height).
RectXYWH(x, y, width, height, ltype) ==
    LET p1 == Point(x, y)
        p2 == Point(x + width, y)
        p3 == Point(x, y + height)
        p4 == Point(x + width, y + height)
    IN  [ltype |-> ltype,
         l1 |-> Line(Point(p1.x, p1.y + 1), Point(p3.x, p3.y)),
         l2 |-> Line(Point(p2.x + 1, p2.y + 1), Point(p4.x + 1, p4.y)),
         l3 |-> Line(Point(p1.x, p1.y), Point(p2.x + 1, p2.y)),
         l4 |-> Line(Point(p3.x, p3.y + 1), Point(p4.x + 1, p4.y + 1))]

\* Rect.__init__ from two corner points.
RectP1P2(p1, p2) ==
    RectXYWH(p1.x, p1.y, p2.x - p1.x - 1, p2.y - p1.y - 1, Regular)

RectLines(r) == <<r.l1, r.l2, r.l3, r.l4>>

RectTouches(r, q) == \E i \in 1..4 : LineTouches(RectLines(r)[i], q)

\* contains with the border cells counted in.
RectContainsInclusive(r, q) ==
    /\ r.l2.p1.x >= q.x /\ q.x >= r.l1.p1.x
    /\ r.l4.p1.y >= q.y /\ q.y >= r.l3.p1.y

RectContains(r, q) ==
    /\ r.l2.p1.x > q.x /\ q.x > r.l1.p1.x
    /\ r.l4.p1.y > q.y /\ q.y > r.l3.p1.y

\* ------------------------------------------------------------------- window
\* The glyph the window shows at a cell (window.inch).
GlyphAt(win, c) == IF c \in DOMAIN win THEN win[c] ELSE Blank

\* Writing the glyph ch to a set of cells; writing a blank clears them.
Write(win, cells, ch) ==
    IF ch = Blank
    THEN [c \in (DOMAIN win) \ cells |-> win[c]]
    ELSE [c \in (DOMAIN win) \cup cells |-> IF c \in cells THEN ch ELSE win[c]]

\* window.move(y, x) raises curses.error outside the window.
MoveOk(ncols, y, x) == x >= 0 /\ x < ncols /\ y >= 0

\* window.hline / window.vline: a run of n cells, cut at the right edge.
HlineCells(ncols, y, x, n) == {<<xx, y>> : xx \in x..(x + n - 1)} \cap ((0..(ncols - 1)) \X {y})

VlineCells(y, x, n) == {<<x, yy>> : yy \in y..(y + n - 1)}

\* The cells of a line without the length compensation.
LineCellsShort(ncols, l) ==
    IF l.orientation = Horizontal
    THEN HlineCells(ncols, l.p1.y, l.p1.x, l.length)
    ELSE VlineCells(l.p1.y, l.p1.x, l.length)

\* The cells a valid line writes (length compensation of +1).
LineCells(ncols, l) ==
    IF l.orientation = Horizontal
    THEN HlineCells(ncols, l.p1.y, l.p1.x, l.length + 1)
    ELSE VlineCells(l.p1.y, l.p1.x, l.length + 1)

LineGlyph(l, ltype) ==
    IF ltype = Canvas
    THEN (IF l.orientation = Horizontal THEN "-" ELSE "|")
    ELSE "x"

\* Line.draw and Line.undraw (ch = Blank): [win, ok]; ok is false when
\* window.move raised.
LinePaint(ncols, win, l, ch) ==
    IF ~validate(l) THEN [win |-> win, ok |-> TRUE]
    ELSE IF ~MoveOk(ncols, l.p1.y, l.p1.x) THEN [win |-> win, ok |-> FALSE]
    ELSE [win |-> Write(win, LineCells(ncols, l), ch), ok |-> TRUE]

LineDraw(ncols, win, l, ltype) == LinePaint(ncols, win, l, LineGlyph(l, ltype))

LineUndraw(ncols, win, l) == LinePaint(ncols, win, l, Blank)

\* Point.draw and Point.undraw (c = Blank): window.move, then window.addstr.
PointDraw(ncols, win, p, c) ==
    IF MoveOk(ncols, p.y, p.x)
    THEN [win |-> Write(win, {Cell(p)}, c), ok |-> TRUE]
    ELSE [win |-> win, ok |-> FALSE]

\* The next statement of a draw or undraw: skipped once one has raised.
ThenDraw(ncols, d, l, ltype) == IF d.ok THEN LineDraw(ncols, d.win, l, ltype) ELSE d

ThenUndraw(ncols, d, l) == IF d.ok THEN LineUndraw(ncols, d.win, l) ELSE d

\* Rect.draw: l1, l2, l3, l4 in this order; an exception ends it.
RectDraw(ncols, win, r) ==
    ThenDraw(ncols,
        ThenDraw(ncols,
            ThenDraw(ncols, LineDraw(ncols, win, r.l1, r.ltype), r.l2, r.ltype),
            r.l3, r.ltype),
        r.l4, r.ltype)

\* Rect.undraw
RectUndraw(ncols, win, r) ==
    ThenUndraw(ncols,
        ThenUndraw(ncols,
            ThenUndraw(ncols, LineUndraw(ncols, win, r.l1), r.l2),
            r.l3),
        r.l4)

\* ------------------------------------------------------------------ Picasso
VARIABLES
    pc,        \* where the session is: "loop", "input", "issue", "fill", "exited", "crashed"
    cmd,       \* the command line read by get_command, decoded
    canvas,    \* self.canvas: None or the canvas Rect
    items,     \* self.items: the registry, by figure type
    window,    \* the glyphs the curses window shows
    msg,       \* the status line (row MAX_Y + 2)
    stack,     \* the frames of the bucket_fill recursion
    cols,      \* window.getmaxyx()[1]
    released,  \* number of calls of curses.endwin
    ncmds,     \* number of commands read so far
    pre,       \* history: canvas, items, window and lastDrawn when the command was read
    lastDrawn, \* history: the previous command if it drew a line or a rect
    order,     \* the order in which bucket_fill visits the four neighbours
    fig        \* a figure built, drawn and undrawn on its own (tests.py)

vars == <<pc, cmd, canvas, items, window, msg, stack, cols, released, ncmds,
          pre, lastDrawn, order, fig>>

\* self.canvas = None
None == [ltype |-> "None"]

\* defaultdict(list)
NoItems == [lines |-> <<>>, rects |-> <<>>, points |-> <<>>]

NoWindow == [c \in {} |-> Blank]

\* A command line, decoded: its shape and its fields.  op "?" is a line that
\* matches none of the five patterns; c is then its text.
Command(op, n, c) == [op |-> op, n |-> n, c |-> c]

NoCmd == Command("", <<>>, "")

Message(text, nums, str) == [text |-> text, nums |-> nums, str |-> str]

NoMessage == Message("", <<>>, "")

PromptText == "enter command: "

TooWide == "Canvas is too wide"

TooTall == "Canvas is too tall"

NeedCanvas == "Please draw a canvas before issuing other commands"

LineNoFit == "Line does not fit current canvas"

InvalidLine == "Invalid line"

RectNoFit == "Rectangle does not fit current canvas"

PointOutside == "Point is outside current canvas"

UnknownCommand == "Unknown command"

Warnings == {TooWide, TooTall, NeedCanvas, LineNoFit, InvalidLine, RectNoFit,
             PointOutside, UnknownCommand}

\* _is_border that does not look at the registered rects.
IsBorderNoRects(cv, its, q) ==
    \/ RectTouches(cv, q)
    \/ \E i \in 1..Len(its.lines) : LineTouches(its.lines[i], q)
    \/ \E i \in 1..Len(its.points) : PointTouches(its.points[i], q)

\* _is_border that looks at no registered point.
IsBorderNoPoints(cv, its, q) ==
    \/ RectTouches(cv, q)
    \/ \E i \in 1..Len(its.lines) : LineTouches(its.lines[i], q)
    \/ \E i \in 1..Len(its.rects) : RectTouches(its.rects[i], q)

\* _is_border that looks at no registered line.
IsBorderNoLines(cv, its, q) ==
    \/ RectTouches(cv, q)
    \/ \E i \in 1..Len(its.rects) : RectTouches(its.rects[i], q)
    \/ \E i \in 1..Len(its.points) : PointTouches(its.points[i], q)

\* Picasso._is_border
IsBorder(cv, its, q) ==
    \/ RectTouches(cv, q)
    \/ \E i \in 1..Len(its.lines) : LineTouches(its.lines[i], q)
    \/ \E i \in 1..Len(its.rects) : RectTouches(its.rects[i], q)
    \/ \E i \in 1..Len(its.points) : PointTouches(its.points[i], q)

\* The chain with the unknown command recognised before the canvas check.
BranchUnknownFirst(c, cv) ==
    IF c.op = "Q" THEN "quit"
    ELSE IF c.op = "C" THEN "canvas"
    ELSE IF c.op = "?" THEN "unknown"
    ELSE IF cv = None THEN "nocanvas"
    ELSE IF c.op = "L" THEN "line"
    ELSE IF c.op = "R" THEN "rect"
    ELSE "fill"

\* The chain with the quit pattern tried after the canvas check.
BranchQuitLate(c, cv) ==
    IF c.op = "C" THEN "canvas"
    ELSE IF cv = None THEN "nocanvas"
    ELSE IF c.op = "Q" THEN "quit"
    ELSE IF c.op = "L" THEN "line"
    ELSE IF c.op = "R" THEN "rect"
    ELSE IF c.op = "B" THEN "fill"
    ELSE "unknown"

\* The branch of the if/elif chain of issue_command that a command takes.
Branch(c, cv) ==
    IF c.op = "Q" THEN "quit"
    ELSE IF c.op = "C" THEN "canvas"
    ELSE IF cv = None THEN "nocanvas"
    ELSE IF c.op = "L" THEN "line"
    ELSE IF c.op = "R" THEN "rect"
    ELSE IF c.op = "B" THEN "fill"
    ELSE "unknown"

CanvasTooWide(w, ncols) == w >= ncols

\* The height check with > for >=.
CanvasTooTallOffByOne(h) == h > MAX_Y

CanvasTooTall(h) == h >= MAX_Y

\* What a call of issue_command leaves behind.
Outcome(cv, its, win, m, next, stk) ==
    [canvas |-> cv, items |-> its, window |-> win, msg |-> m, pc |-> next,
     stack |-> stk]

\* self.warning(text); return
Warn(cv, its, win, m) == Outcome(cv, its, win, m, "loop", <<>>)

\* The end of a drawing command whose draw d returned or raised.
Drawn(cv, its, d, m) ==
    Outcome(cv, its, d.win, m, IF d.ok THEN "loop" ELSE "crashed", <<>>)

\* Picasso.remove_canvas, when there is a canvas.
remove_canvas(ncols, win, cv) ==
    IF cv # None THEN RectUndraw(ncols, win, cv) ELSE [win |-> win, ok |-> TRUE]

\* Picasso.draw_canvas: self.canvas is set before the canvas is drawn.
draw_canvas(ncols, its, win, m, new) == Drawn(new, its, RectDraw(ncols, win, new), m)

\* remove_canvas (its result is u), then draw_canvas.
ReplaceCanvas(ncols, cv, its, u, m, w, h) ==
    IF u.ok THEN draw_canvas(ncols, its, u.win, m, RectXYWH(0, 0, w, h, Canvas))
    ELSE Drawn(cv, its, u, m)

\* The canvas branch: the two size checks, remove_canvas, draw_canvas.
CanvasCommand(ncols, cv, its, win, m, w, h) ==
    IF CanvasTooWide(w, ncols) THEN Warn(cv, its, win, Message(TooWide, <<>>, ""))
    ELSE IF CanvasTooTall(h) THEN Warn(cv, its, win, Message(TooTall, <<>>, ""))
    ELSE ReplaceCanvas(ncols, cv, its, remove_canvas(ncols, win, cv), m, w, h)

\* draw_line that registers a line only if the registry does not hold it yet.
draw_lineOnce(ncols, its, win, line) ==
    LET d == LineDraw(ncols, win, line, Regular)
        known == \E i \in 1..Len(its.lines) : its.lines[i] = line
    IN  [items |-> IF d.ok /\ ~known THEN [its EXCEPT !.lines = Append(@, line)] ELSE its,
         win |-> d.win, ok |-> d.ok]

\* The registry and the window after a draw d of a figure of the given type.
Registered(its, type, figure, d) ==
    [items |-> IF d.ok THEN [its EXCEPT ![type] = Append(@, figure)] ELSE its,
     win |-> d.win, ok |-> d.ok]

\* Picasso.draw_line: [items, win, ok]; an exception of line.draw leaves the
\* line unregistered.
draw_line(ncols, its, win, line) ==
    Registered(its, "lines", line, LineDraw(ncols, win, line, Regular))

\* Rect(p1=p1, p2=p2), rect.draw and the append of Picasso.draw_rect.
DrawRect(ncols, its, win, rect) ==
    Registered(its, "rects", rect, RectDraw(ncols, win, rect))

\* Picasso.draw_rect
draw_rect(ncols, its, win, p1, p2) == DrawRect(ncols, its, win, RectP1P2(p1, p2))

\* The end of draw_line or draw_rect, whose result is d.
Registry(cv, d, m) == Drawn(cv, d.items, d, m)

\* The line branch, for the line built from the endpoints p1 and p2.
LineBranch(ncols, cv, its, win, m, n, p1, p2, line) ==
    IF ~RectContains(cv, p1) \/ ~RectContains(cv, p2)
    THEN Warn(cv, its, win, Message(LineNoFit, <<>>, ""))
    ELSE IF validate(line)
    THEN Registry(cv, draw_line(ncols, its, win, line), m)
    ELSE Warn(cv, its, win, Message(InvalidLine, n, ""))

\* The line branch.
LineCommand(ncols, cv, its, win, m, n) ==
    LineBranch(ncols, cv, its, win, m, n, Point(n[1], n[2]), Point(n[3], n[4]),
               Line(Point(n[1], n[2]), Point(n[3], n[4])))

\* The rect branch, for the corners p1 and p2.
RectBranch(ncols, cv, its, win, m, p1, p2) ==
    IF RectContains(cv, p1) /\ RectContains(cv, p2)
    THEN Registry(cv, draw_rect(ncols, its, win, p1, p2), m)
    ELSE Warn(cv, its, win, Message(RectNoFit, <<>>, ""))

\* The rect branch.
RectCommand(ncols, cv, its, win, m, n) ==
    RectBranch(ncols, cv, its, win, m, Point(n[1], n[2]), Point(n[3], n[4]))

\* A frame of bucket_fill: its point and the statement it is at.
Frame(p, at) == [point |-> p, at |-> at]

\* The fill branch: the first call of bucket_fill, or the warning.
FillCommand(cv, its, win, m, n) ==
    IF RectContains(cv, Point(n[1], n[2]))
    THEN Outcome(cv, its, win, m, "fill", <<Frame(Point(n[1], n[2]), "enter")>>)
    ELSE Warn(cv, its, win, Message(PointOutside, <<>>, ""))

\* The warning without the text of the command.
UnknownWarningNoEcho(c) == Message(UnknownCommand, <<>>, "")

\* 'Unknown command: "{}"'.format(command)
UnknownWarning(c) == Message(UnknownCommand, <<>>, c.c)

\* The body of the branch b of issue_command.
Dispatch(b, ncols, c, cv, its, win, m) ==
    IF b = "quit" THEN Outcome(cv, its, win, m, "exited", <<>>)
    ELSE IF b = "canvas" THEN CanvasCommand(ncols, cv, its, win, m, c.n[1], c.n[2])
    ELSE IF b = "nocanvas" THEN Warn(cv, its, win, Message(NeedCanvas, <<>>, ""))
    ELSE IF b = "line" THEN LineCommand(ncols, cv, its, win, m, c.n)
    ELSE IF b = "rect" THEN RectCommand(ncols, cv, its, win, m, c.n)
    ELSE IF b = "fill" THEN FillCommand(cv, its, win, m, c.n)
    ELSE Warn(cv, its, win, UnknownWarning(c))

\* Picasso.issue_command
IssueCommand(ncols, c, cv, its, win, m) ==
    Dispatch(Branch(c, cv), ncols, c, cv, its, win, m)

\* ------------------------------------------------------------------ inputs
Coords == 0..MaxCoord

CanvasWidths == 0..SurfaceWidth

CanvasHeights == Coords \cup {MAX_Y - 1, MAX_Y}

\* Fill glyphs: single word characters.
FillGlyphs == {"o", "z"}

\* Lines of text that match none of the five patterns.
UnknownTexts == {"draw"}

Commands ==
    {Command("Q", <<>>, "")}
    \cup {Command("C", <<w, h>>, "") : w \in CanvasWidths, h \in CanvasHeights}
    \cup {Command("L", <<x1, y1, x2, y2>>, "") :
              x1 \in Coords, y1 \in Coords, x2 \in Coords, y2 \in Coords}
    \cup {Command("R", <<x1, y1, x2, y2>>, "") :
              x1 \in Coords, y1 \in Coords, x2 \in Coords, y2 \in Coords}
    \cup {Command("B", <<x, y>>, g) : x \in Coords, y \in Coords, g \in FillGlyphs}
    \cup {Command("?", <<>>, t) : t \in UnknownTexts}

\* The commands of the __main__ test run and of test_issue_command_bucket_fill.
Script ==
    << Command("C", <<20, 4>>, ""),
       Command("L", <<1, 2, 6, 2>>, ""),
       Command("L", <<6, 3, 6, 4>>, ""),
       Command("R", <<16, 1, 20, 3>>, ""),
       Command("B", <<10, 3>>, "o") >>

\* ----------------------------------------------------------------- actions
Snapshot(cv, its, win, last) ==
    [canvas |-> cv, items |-> its, window |-> win, lastDrawn |-> last]

NoSnapshot == Snapshot(None, NoItems, NoWindow, NoCmd)

\* Picasso.__init__
InitPicasso ==
    /\ pc = "loop"
    /\ cmd = NoCmd
    /\ canvas = None
    /\ items = NoItems
    /\ window = NoWindow
    /\ msg = NoMessage
    /\ stack = <<>>
    /\ released = 0
    /\ ncmds = 0
    /\ pre = NoSnapshot
    /\ lastDrawn = NoCmd

\* The order of the four recursive calls of bucket_fill.
FillOrder == <<"left", "up", "right", "down">>

\* No figure is handled on its own in a session.
NoFigure == [kind |-> "none", phase |-> "none"]

\* A session on a window of ncols columns.
InitSession(ncols) ==
    /\ InitPicasso
    /\ cols = ncols
    /\ order = FillOrder
    /\ fig = NoFigure

Init == InitSession(SurfaceWidth)

InitScenario == InitSession(ScenarioWidth)

\* get_command up to the blocking read: the prompt replaces the status line.
Prompt ==
    /\ pc = "loop"
    /\ pc' = "input"
    /\ msg' = Message(PromptText, <<>>, "")
    /\ cmd' = NoCmd
    /\ pre' = NoSnapshot
    /\ UNCHANGED <<canvas, items, window, stack, cols, released, ncmds, lastDrawn,
                   order, fig>>

\* window.getstr() returns the line c.
Read(c) ==
    /\ pc = "input"
    /\ pc' = "issue"
    /\ cmd' = c
    /\ ncmds' = ncmds + 1
    /\ pre' = Snapshot(canvas, items, window, lastDrawn)
    /\ UNCHANGED <<canvas, items, window, msg, stack, cols, released, lastDrawn,
                   order, fig>>

ReadCommand ==
    /\ ncmds < MaxCmds
    /\ \E c \in Commands : Read(c)

ReadScript ==
    /\ ncmds < Len(Script)
    /\ Read(Script[ncmds + 1])

\* The state after a call of issue_command that left r.  quit() runs once
\* before SystemExit and once more in the finally clause of __main__, which
\* also runs it when an exception escapes.
Becomes(r) ==
    /\ pc' = r.pc
    /\ canvas' = r.canvas
    /\ items' = r.items
    /\ window' = r.window
    /\ msg' = r.msg
    /\ stack' = r.stack
    /\ released' = IF r.pc = "exited" THEN released + 2
                   ELSE IF r.pc = "crashed" THEN released + 1
                   ELSE released
    /\ lastDrawn' = IF r.pc = "loop" /\ cmd.op \in {"L", "R"} /\ r.msg = msg
                    THEN cmd ELSE NoCmd

\* issue_command up to its return, its exception or its call of bucket_fill.
Issue ==
    /\ pc = "issue"
    /\ Becomes(IssueCommand(cols, cmd, canvas, items, window, msg))
    /\ UNCHANGED <<cmd, cols, ncmds, pre, order, fig>>

\* PaintPoint without the registration of the point.
PaintPointUnregistered(its, win, p, c) ==
    [items |-> its,
     window |-> Write(win, {Cell(p)}, c)]

\* draw_point followed by point.draw and a second append (bucket_fill).
PaintPoint(its, win, p, c) ==
    [items |-> [its EXCEPT !.points = Append(Append(@, p), p)],
     window |-> Write(win, {Cell(p)}, c)]

\* Neighbour with the point above replaced by the point below.
NeighbourNoUp(p, at) ==
    IF at = "left" THEN get_left(p)
    ELSE IF at = "up" THEN get_down(p)
    ELSE IF at = "right" THEN get_right(p)
    ELSE get_down(p)

Neighbour(p, at) ==
    IF at = "left" THEN get_left(p)
    ELSE IF at = "up" THEN get_up(p)
    ELSE IF at = "right" THEN get_right(p)
    ELSE get_down(p)

\* The statement after the check of a neighbour.
After(at) ==
    IF at = "left" THEN "up"
    ELSE IF at = "up" THEN "right"
    ELSE IF at = "right" THEN "down"
    ELSE "return"

\* The position of the direction at in the order ord.
Place(ord, at) == CHOOSE i \in 1..Len(ord) : ord[i] = at

\* AfterIn that returns before the last of the four checks.
AfterInShort(ord, at) ==
    IF Place(ord, at) >= Len(ord) - 1 THEN "return" ELSE ord[Place(ord, at) + 1]

\* After, for the four checks made in the order ord.
AfterIn(ord, at) ==
    IF Place(ord, at) = Len(ord) THEN "return" ELSE ord[Place(ord, at) + 1]

Pop(stk) == SubSeq(stk, 1, Len(stk) - 1)

\* sys.getrecursionlimit(): the deepest stack of calls the interpreter allows
\* before it raises "maximum recursion depth exceeded".
RecursionLimit == 1000

\* The frames that are not calls of bucket_fill when a call of bucket_fill
\* checks its point: the module and issue_command below the first call,
\* _is_border, Rect.touches and Line.touches above the innermost one.
OtherFrames == 5

\* The check of its point by the innermost of n nested calls of bucket_fill
\* exceeds the recursion limit.
TooDeep(n) == n + OtherFrames > RecursionLimit

\* One statement of the innermost call of bucket_fill.  The exception of a
\* call that is nested too deep escapes to __main__, which releases the
\* window and raises it again.
FillStep ==
    /\ pc = "fill"
    /\ LET n == Len(stack)
           f == stack[n]
       IN  IF f.at = "enter"
           THEN IF TooDeep(n)
                THEN /\ stack' = stack
                     /\ UNCHANGED <<items, window>>
                ELSE IF IsBorder(canvas, items, f.point)
                THEN /\ stack' = Pop(stack)
                     /\ UNCHANGED <<items, window>>
                ELSE LET d == PaintPoint(items, window, f.point, cmd.c)
                     IN  /\ items' = d.items
                         /\ window' = d.window
                         /\ stack' = [stack EXCEPT ![n].at = order[1]]
           ELSE IF f.at = "return"
           THEN /\ stack' = Pop(stack)
                /\ UNCHANGED <<items, window>>
           ELSE LET q == Neighbour(f.point, f.at)
                    here == [stack EXCEPT ![n].at = AfterIn(order, f.at)]
                IN  /\ stack' = IF RectContains(canvas, q)
                                THEN Append(here, Frame(q, "enter"))
                                ELSE here
                    /\ UNCHANGED <<items, window>>
    /\ pc' = IF stack' = <<>> THEN "loop"
             ELSE IF stack' = stack THEN "crashed"
             ELSE "fill"
    /\ released' = IF pc' = "crashed" THEN released + 1 ELSE released
    /\ UNCHANGED <<cmd, canvas, msg, cols, ncmds, pre, lastDrawn, order, fig>>

Next == Prompt \/ ReadCommand \/ Issue \/ FillStep

Spec == Init /\ [][Next]_vars

NextScenario == Prompt \/ ReadScript \/ Issue \/ FillStep

SpecScenario == InitScenario /\ [][NextScenario]_vars

\* A fill of an empty canvas of 40 x 27 cells on the window of the scripted
\* session.
DeepScript ==
    << Command("C", <<40, 27>>, ""),
       Command("B", <<1, 1>>, "o") >>

ReadDeep ==
    /\ ncmds < Len(DeepScript)
    /\ Read(DeepScript[ncmds + 1])

NextDeep == Prompt \/ ReadDeep \/ Issue \/ FillStep

SpecDeep == InitScenario /\ [][NextDeep]_vars

\* --------------------------------------------- bucket_fill as a function
RECURSIVE bucket_fill(_, _, _, _, _)

\* `if self.canvas.contains(q): self.bucket_fill(q, c)` in the state d.
Visit(cv, d, q, c) ==
    IF RectContains(cv, q) THEN bucket_fill(cv, d.items, d.window, q, c) ELSE d

\* Picasso.bucket_fill: the registry and the window when the call returns.
bucket_fill(cv, its, win, point, c) ==
    IF IsBorder(cv, its, point) THEN [items |-> its, window |-> win]
    ELSE Visit(cv,
             Visit(cv,
                 Visit(cv,
                     Visit(cv, PaintPoint(its, win, point, c), get_left(point), c),
                     get_up(point), c),
                 get_right(point), c),
             get_down(point), c)

\* ------------------------------------------------ fills in another order
\* The orders in which the four neighbours can be visited.
Orders ==
    {o \in [1..Len(FillOrder) -> {FillOrder[i] : i \in 1..Len(FillOrder)}] :
         \A i, j \in 1..Len(FillOrder) : o[i] = o[j] => i = j}

\* A session whose fills visit the neighbours in one of these orders.
InitOrder ==
    /\ InitPicasso
    /\ cols = SurfaceWidth
    /\ order \in Orders
    /\ fig = NoFigure

\* The commands that build a picture and fill it.
OrderCommands ==
    {c \in Commands :
         /\ c.op \in {"C", "L", "R", "B"}
         /\ c.op = "C" => (~CanvasTooWide(c.n[1] + 1, SurfaceWidth) /\ ~CanvasTooTall(c.n[2]))
         /\ c.op = "B" => c.c = "o"}

ReadOrderCommand ==
    /\ ncmds < MaxCmds
    /\ \E c \in OrderCommands : Read(c)

NextOrder == Prompt \/ ReadOrderCommand \/ Issue \/ FillStep

SpecOrder == InitOrder /\ [][NextOrder]_vars

\* ------------------------------------------- fills on a replaced canvas
\* The commands of a session that draws a canvas and a figure, replaces the
\* canvas and fills the new one.
StalePattern == << {"C"}, {"L", "R"}, {"C"}, {"B"} >>

\* Canvases that have an interior, of up to MaxCoord + 1 rows, and whose
\* border fits the window of Spec.
SmallCanvas(c) ==
    /\ c.n[1] >= 1
    /\ ~CanvasTooWide(c.n[1] + 1, SurfaceWidth)
    /\ c.n[2] \in 1..(MaxCoord + 1)

StaleCommands(k) ==
    {c \in Commands \cup {Command("C", <<w, MaxCoord + 1>>, "") : w \in CanvasWidths} :
         /\ c.op \in StalePattern[k]
         /\ c.op = "C" => SmallCanvas(c)
         /\ c.op = "B" => c.c = "o"}

ReadStale ==
    /\ ncmds < Len(StalePattern)
    /\ \E c \in StaleCommands(ncmds + 1) : Read(c)

NextStale == Prompt \/ ReadStale \/ Issue \/ FillStep

SpecStale == Init /\ [][NextStale]_vars

\* ------------------------------------------------- figures on their own
\* Coordinates of the points figures are built from (tests.py builds its
\* points, lines and rects directly and draws them on the bare window).
MaxFigure == 4

FigurePoints == {Point(x, y) : x \in 0..MaxFigure, y \in 0..MaxFigure}

\* The points at which touches and contains are called.
ProbePoints == {Point(x, y) : x \in (-1)..(MaxFigure + 1), y \in (-1)..(MaxFigure + 1)}

\* Point(a), Line(a, b), Rect(p1=a, p2=b), or the Rect of a canvas of width
\* b.x and height b.y at the origin a.
Shape(kind, a, b) ==
    IF kind = "point" THEN a
    ELSE IF kind = "line" THEN Line(a, b)
    ELSE IF kind = "rect" THEN RectP1P2(a, b)
    ELSE RectXYWH(a.x, a.y, b.x, b.y, Canvas)

\* shape.touches(q)
Touches(kind, shape, q) ==
    IF kind = "point" THEN PointTouches(shape, q)
    ELSE IF kind = "line" THEN LineTouches(shape, q)
    ELSE RectTouches(shape, q)

\* shape.contains(q), which only a Rect has.
Contains(kind, shape, q) == kind \in {"rect", "canvas"} /\ RectContains(shape, q)

\* The figure with the answers of touches and contains at every probe point.
Figure(kind, a, b) ==
    [kind |-> kind, a |-> a, b |-> b, phase |-> "new",
     shape |-> Shape(kind, a, b),
     touched |-> {q \in ProbePoints : Touches(kind, Shape(kind, a, b), q)},
     contained |-> {q \in ProbePoints : Contains(kind, Shape(kind, a, b), q)}]

FigureInputs ==
    {<<"point", a, a>> : a \in FigurePoints}
    \cup {<<k, a, b>> : k \in {"line", "rect"}, a \in FigurePoints, b \in FigurePoints}
    \cup {<<"canvas", Point(0, 0), b>> : b \in FigurePoints}

\* The constructors.
Construct ==
    /\ fig.kind = "none"
    /\ \E i \in FigureInputs : fig' = Figure(i[1], i[2], i[3])
    /\ UNCHANGED <<pc, cmd, canvas, items, window, msg, stack, cols, released, ncmds,
                   pre, lastDrawn, order>>

\* figure.draw(window) with the default arguments.
FigureDraw(ncols, win, f) ==
    IF f.kind = "point" THEN PointDraw(ncols, win, f.shape, "o")
    ELSE IF f.kind = "line" THEN LineDraw(ncols, win, f.shape, Regular)
    ELSE RectDraw(ncols, win, f.shape)

\* figure.undraw(window)
FigureUndraw(ncols, win, f) ==
    IF f.kind = "point" THEN PointDraw(ncols, win, f.shape, Blank)
    ELSE IF f.kind = "line" THEN LineUndraw(ncols, win, f.shape)
    ELSE RectUndraw(ncols, win, f.shape)

\* The window and the figure after a draw or undraw d that leads to phase.
Painted(d, phase) ==
    /\ window' = d.win
    /\ fig' = [fig EXCEPT !.phase = IF d.ok THEN phase ELSE "raised"]
    /\ UNCHANGED <<pc, cmd, canvas, items, msg, stack, cols, released, ncmds,
                   pre, lastDrawn, order>>

DrawFigure ==
    /\ fig.phase = "new"
    /\ Painted(FigureDraw(cols, window, fig), "drawn")

UndrawFigure ==
    /\ fig.phase = "drawn"
    /\ Painted(FigureUndraw(cols, window, fig), "undrawn")

NextFigures == Construct \/ DrawFigure \/ UndrawFigure

SpecFigures == Init /\ [][NextFigures]_vars

\* ---------------------------------------------------------- the properties
\* The command cmd has been processed: issue_command returned, or the session
\* ended in it.
Processed == cmd # NoCmd /\ pc \in {"loop", "exited", "crashed"}

\* A warning was shown for the command.
Warned == pc = "loop" /\ msg.text \in Warnings

\* Canvas, registry and drawn cells are those the command found.
Untouched == canvas = pre.canvas /\ items = pre.items /\ window = pre.window

\* The size of a canvas built by 'C W H', read off its border lines.
CanvasW(cv) == cv.l3.p2.x - 1

CanvasH(cv) == cv.l4.p1.y - 1

InteriorPoints(cv) == {Point(x, y) : x \in 1..CanvasW(cv), y \in 1..CanvasH(cv)}

FourNeighbours(p) ==
    {Point(p.x - 1, p.y), Point(p.x + 1, p.y), Point(p.x, p.y - 1), Point(p.x, p.y + 1)}

\* Interior cells that are no border.
FreePoints(cv, its) == {q \in InteriorPoints(cv) : ~IsBorder(cv, its, q)}

\* The free points 4-connected to those of S through free points.
RECURSIVE Connected(_, _)
Connected(free, S) ==
    LET T == S \cup {q \in free : \E p \in S : q \in FourNeighbours(p)}
    IN  IF T = S THEN S ELSE Connected(free, T)

Seed == Point(cmd.n[1], cmd.n[2])

\* A Fill command whose seed was a free interior cell has run to its end.
FillDone ==
    /\ pc = "loop"
    /\ cmd.op = "B"
    /\ pre.canvas # None
    /\ Seed \in FreePoints(pre.canvas, pre.items)

FillRegion == Connected(FreePoints(pre.canvas, pre.items), {Seed})

\* C1: a Fill with glyph c from a free interior seed paints with c exactly the
\* interior cells 4-connected to the seed through cells that were no border
\* when the command started, and changes the glyph of no other cell.
C1_FillPaintsRegion ==
    FillDone =>
        LET region == {Cell(q) : q \in FillRegion}
        IN  \A c \in (DOMAIN window) \cup (DOMAIN pre.window) \cup region :
                GlyphAt(window, c) = IF c \in region THEN cmd.c
                                     ELSE GlyphAt(pre.window, c)

\* A fill that painted several cells and was kept out of other free cells by
\* a registered figure.
C1_Witness ==
    /\ FillDone
    /\ pre.items.lines # <<>>
    /\ Cardinality(FillRegion) >= 2
    /\ FreePoints(pre.canvas, pre.items) \ FillRegion # {}

\* The scripted session has run to its end.
ScenarioDone == ncmds = Len(Script) /\ pc = "loop"

ScenarioFilled ==
    ((1..15) \X {1}) \cup ((7..15) \X {2, 3}) \cup ((7..20) \X {4})

ScenarioBlank == ((17..19) \X {2}) \cup ((1..5) \X {3, 4})

ScenarioFigures ==
    ((1..6) \X {2}) \cup ({6} \X {3, 4})
    \cup ((16..20) \X {1, 3}) \cup ({16, 20} \X {2})

ScenarioDashes == (0..21) \X {0, 5}

ScenarioBars == {0, 21} \X (1..4)

\* C2: after 'C 20 4', 'L 1 2 6 2', 'L 6 3 6 4', 'R 16 1 20 3', 'B 10 3 o'
\* exactly the 47 cells (1..15,1), (7..15,2), (7..15,3), (7..20,4) show 'o',
\* the rectangle's interior and the pocket under the first line are blank, and
\* the lines, the rectangle and the canvas border show their own glyphs.
C2_Scenario ==
    ScenarioDone =>
        /\ {c \in DOMAIN window : window[c] = "o"} = ScenarioFilled
        /\ Cardinality(ScenarioFilled) = 47
        /\ \A c \in ScenarioBlank : GlyphAt(window, c) = Blank
        /\ \A c \in ScenarioFigures : GlyphAt(window, c) = "x"
        /\ \A c \in ScenarioDashes : GlyphAt(window, c) = "-"
        /\ \A c \in ScenarioBars : GlyphAt(window, c) = "|"

\* The fill of the script has returned.
C2_Witness == ScenarioDone /\ cmd = Script[Len(Script)] /\ Len(items.points) > 0

\* C3: with no canvas, every command other than Canvas and Quit is answered
\* with the fixed warning, and canvas, registry and window stay as they were.
C3_NoCanvasWarning ==
    (cmd # NoCmd /\ pc # "issue" /\ pre.canvas = None /\ cmd.op \notin {"C", "Q"}) =>
        /\ pc = "loop"
        /\ msg = Message(NeedCanvas, <<>>, "")
        /\ canvas = None
        /\ Untouched

\* A fill command was answered with the warning.
C3_Witness ==
    /\ pc = "loop"
    /\ cmd.op = "B"
    /\ pre.canvas = None
    /\ msg.text = NeedCanvas

\* C4: a Quit command releases the window and ends the session in either
\* state, with no warning and no change of the drawing, and no step follows
\* the end of the session.
C4_QuitEnds ==
    [][/\ (pc = "issue" /\ cmd.op = "Q") =>
              /\ pc' = "exited"
              /\ released' > released
              /\ UNCHANGED <<canvas, items, window, msg>>
       /\ pc # "exited"]_vars

\* The session ended by a Quit with a canvas and a figure on it.
C4_Witness ==
    /\ pc = "exited"
    /\ cmd.op = "Q"
    /\ canvas # None
    /\ items.rects # <<>>
    /\ released > 0

\* C5: a Canvas command is rejected exactly when W >= the window's width or
\* H >= MAX_Y; a rejected one leaves canvas, registry and window as they
\* were, and one that is not rejected replaces the canvas.
C5_CanvasRejected ==
    (cmd.op = "C" /\ pc # "issue") =>
        LET tooBig == cmd.n[1] >= cols \/ cmd.n[2] >= MAX_Y
        IN  /\ Warned <=> tooBig
            /\ tooBig => (pc = "loop" /\ Untouched)
            /\ ~tooBig => canvas = RectXYWH(0, 0, cmd.n[1], cmd.n[2], Canvas)

\* A too tall canvas was rejected while a canvas with a line was on screen.
C5_Witness ==
    /\ cmd.op = "C"
    /\ Warned
    /\ msg.text = TooTall
    /\ pre.canvas # None
    /\ pre.items.lines # <<>>

Outside(cv, p) == ~(p.x \in 1..CanvasW(cv) /\ p.y \in 1..CanvasH(cv))

\* The command is one of those that are to be rejected.
RejectedInput ==
    \/ cmd.op = "?"
    \/ cmd.op \in {"L", "R", "B"} /\ pre.canvas = None
    \/ cmd.op = "C" /\ (cmd.n[1] >= cols \/ cmd.n[2] >= MAX_Y)
    \/ /\ cmd.op \in {"L", "R"}
       /\ pre.canvas # None
       /\ \/ Outside(pre.canvas, Point(cmd.n[1], cmd.n[2]))
          \/ Outside(pre.canvas, Point(cmd.n[3], cmd.n[4]))
    \/ cmd.op = "L" /\ pre.canvas # None /\ cmd.n[1] # cmd.n[3] /\ cmd.n[2] # cmd.n[4]
    \/ cmd.op = "B" /\ pre.canvas # None /\ Outside(pre.canvas, Point(cmd.n[1], cmd.n[2]))

\* C6: every rejected command is answered with a warning and changes neither
\* a cell of the window nor the registry nor the canvas.
C6_RejectedChangesNothing ==
    (RejectedInput /\ pc # "issue") => (Warned /\ Untouched)

\* A rectangle that does not fit was rejected on a canvas that holds a line.
C6_Witness ==
    /\ cmd.op = "R"
    /\ Warned
    /\ msg.text = RectNoFit
    /\ pre.items.lines # <<>>

\* C7: a Line command whose endpoints differ on both axes is rejected in
\* every state: no cell is painted and no line is registered.
C7_DiagonalRejected ==
    (cmd.op = "L" /\ pc # "issue" /\ cmd.n[1] # cmd.n[3] /\ cmd.n[2] # cmd.n[4]) =>
        /\ Warned
        /\ window = pre.window
        /\ items = pre.items

\* A diagonal between two interior points was rejected.
C7_Witness ==
    /\ cmd.op = "L"
    /\ pc = "loop"
    /\ msg = Message(InvalidLine, cmd.n, "")
    /\ ~Outside(pre.canvas, Point(cmd.n[1], cmd.n[2]))
    /\ ~Outside(pre.canvas, Point(cmd.n[3], cmd.n[4]))

\* C8 as stated: an unknown command is answered with the warning that echoes
\* its text, with or without a canvas, and the state is unchanged.
C8_UnknownEchoedAlways ==
    (cmd.op = "?" /\ pc # "issue") =>
        /\ pc = "loop"
        /\ msg = Message(UnknownCommand, <<>>, cmd.c)
        /\ Untouched

\* C8, amended: an unknown command is answered with the warning that echoes
\* its text when there is a canvas, and with the fixed warning that asks for
\* a canvas when there is none; the state is unchanged in both cases.
C8_UnknownWarning ==
    (cmd.op = "?" /\ pc # "issue") =>
        /\ pc = "loop"
        /\ msg = IF pre.canvas = None THEN Message(NeedCanvas, <<>>, "")
                 ELSE Message(UnknownCommand, <<>>, cmd.c)
        /\ Untouched

\* An unknown command was echoed on a canvas.
C8_Witness ==
    /\ cmd.op = "?"
    /\ pc = "loop"
    /\ pre.canvas # None
    /\ msg.text = UnknownCommand
    /\ msg.str = cmd.c

\* The registry pre.items with the last figure of the list of its type added
\* once more.
Repeated(its, type) ==
    /\ pre.items[type] # <<>>
    /\ its = [pre.items EXCEPT ![type] = Append(@, @[Len(@)])]

\* C9: the same valid Line or Rect command issued twice in a row registers
\* two equal figures, and every cell shows after the second the glyph it
\* showed after the first.
C9_SameCommandTwice ==
    (pc # "issue" /\ cmd # NoCmd /\ cmd = pre.lastDrawn) =>
        /\ pc = "loop"
        /\ ~Warned
        /\ window = pre.window
        /\ Repeated(items, IF cmd.op = "L" THEN "lines" ELSE "rects")

\* A rectangle command was issued twice in a row.
C9_Witness ==
    /\ pc = "loop"
    /\ cmd.op = "R"
    /\ cmd = pre.lastDrawn
    /\ Len(items.rects) = 2

\* C10 as stated: an accepted Canvas command that replaces a canvas leaves no
\* figure of the previous canvas in the registry.
C10_RegistryOfActiveCanvas ==
    (cmd.op = "C" /\ pc = "loop" /\ ~Warned /\ pre.canvas # None) => items = NoItems

\* The cells whose glyph the command has changed so far.
ChangedCells ==
    {c \in (DOMAIN window) \cup (DOMAIN pre.window) :
         GlyphAt(window, c) # GlyphAt(pre.window, c)}

\* A Line, Rect or Fill command was accepted on a canvas and has drawn, or is
\* drawing.
AcceptedDrawing ==
    /\ cmd.op \in {"L", "R", "B"}
    /\ pc \in {"loop", "fill"}
    /\ ~Warned
    /\ pre.canvas # None

\* The glyph the border of the canvas shows at a cell of its border.
BorderGlyph(cv, c) == IF c[2] = 0 \/ c[2] = CanvasH(cv) + 1 THEN "-" ELSE "|"

BorderCells(cv) ==
    {c \in (0..(CanvasW(cv) + 1)) \X (0..(CanvasH(cv) + 1)) :
         c[1] \in {0, CanvasW(cv) + 1} \/ c[2] \in {0, CanvasH(cv) + 1}}

\* C11 as stated: every cell painted by an accepted Line, Rect or Fill command
\* is an interior cell of the canvas, whatever the order of the endpoints or
\* corners, and every border cell of the canvas keeps the glyph it showed.
C11_PaintsInterior ==
    AcceptedDrawing =>
        /\ \A c \in ChangedCells : ~Outside(canvas, Point(c[1], c[2]))
        /\ \A c \in BorderCells(canvas) :
               GlyphAt(pre.window, c) = BorderGlyph(canvas, c)
                   => GlyphAt(window, c) = BorderGlyph(canvas, c)

\* C12 as stated: every Fill command comes to its end and the command loop
\* resumes: a Fill that was accepted is running or has returned to the loop.
C12_FillResumes ==
    (cmd.op = "B" /\ pc # "issue") => pc \in {"fill", "loop"}

Min(m, n) == IF m <= n THEN m ELSE n

Max(m, n) == IF m >= n THEN m ELSE n

\* The endpoints a and b differ along at most one axis.
AxisAligned(a, b) == a.x = b.x \/ a.y = b.y

\* q lies on the axis of the segment from a to b, between its endpoints.
InSpan(a, b, q) ==
    IF a.x = b.x
    THEN q.x = a.x /\ Min(a.y, b.y) <= q.y /\ q.y <= Max(a.y, b.y)
    ELSE q.y = a.y /\ Min(a.x, b.x) <= q.x /\ q.x <= Max(a.x, b.x)

\* C13: for an axis-aligned line, touches is true exactly at the points on
\* the line's axis whose varying coordinate is within the inclusive span of
\* the endpoints, and it is false (False or None) at every other point.
C13_LineTouchesSpan ==
    (fig.kind = "line" /\ AxisAligned(fig.a, fig.b)) =>
        /\ fig.touched = {q \in ProbePoints : InSpan(fig.a, fig.b, q)}
        /\ \A q \in ProbePoints :
               /\ LineTouches(fig.shape, q) <=> LineTouchesValue(fig.shape, q) = "True"
               /\ ~InSpan(fig.a, fig.b, q) =>
                      LineTouchesValue(fig.shape, q) \in {"False", "None"}

\* A line of three cells or more, built from its far endpoint first, that was
\* asked about a point on its axis beyond its end.
C13_Witness ==
    /\ fig.kind = "line"
    /\ fig.a.y = fig.b.y
    /\ fig.a.x >= fig.b.x + 2
    /\ fig.a \in fig.touched
    /\ fig.b \in fig.touched
    /\ \E q \in ProbePoints : LineTouchesValue(fig.shape, q) = "None"

\* The opposite corners of the rectangle a Rect figure is to span: the two
\* points it was built from, or the corners of the border of a canvas.
CornerA(f) == f.a

CornerB(f) == IF f.kind = "canvas" THEN Point(f.a.x + f.b.x + 1, f.a.y + f.b.y + 1) ELSE f.b

\* q is within the rectangle spanned by c1 and c2, borders included.
Within(c1, c2, q) ==
    /\ Min(c1.x, c2.x) <= q.x /\ q.x <= Max(c1.x, c2.x)
    /\ Min(c1.y, c2.y) <= q.y /\ q.y <= Max(c1.y, c2.y)

\* q is on the perimeter of that rectangle.
OnPerimeter(c1, c2, q) ==
    /\ Within(c1, c2, q)
    /\ q.x \in {c1.x, c2.x} \/ q.y \in {c1.y, c2.y}

\* What C14 says of a Rect figure.
TouchesPerimeterContainsInside(f) ==
    /\ f.touched = {q \in ProbePoints : OnPerimeter(CornerA(f), CornerB(f), q)}
    /\ f.contained = {q \in ProbePoints : Within(CornerA(f), CornerB(f), q)
                                          /\ ~OnPerimeter(CornerA(f), CornerB(f), q)}
    /\ f.touched \cap f.contained = {}

\* C14 as stated: for every Rect built from two corner points and for the Rect
\* of a canvas, touches is true exactly on the perimeter of the rectangle the
\* corners span, contains exactly strictly inside it, and never both.
C14_RectTouchesContains ==
    fig.kind \in {"rect", "canvas"} => TouchesPerimeterContainsInside(fig)

\* The same for rects whose first corner is above and left of the second, and
\* for canvases.
OrderedCornersSpanTheRect ==
    (\/ fig.kind = "canvas"
     \/ fig.kind = "rect" /\ fig.a.x < fig.b.x /\ fig.a.y < fig.b.y)
        => TouchesPerimeterContainsInside(fig)

\* C15: a line built from two endpoints that differ along at most one axis,
\* in either order, stores as p1 the endpoint with the smaller coordinate on
\* the varying axis and as p2 the other one, and its length is the absolute
\* difference of the endpoints on that axis, which is not negative.
C15_LineOrdered ==
    (fig.kind = "line" /\ AxisAligned(fig.a, fig.b)) =>
        /\ {fig.shape.p1, fig.shape.p2} = {fig.a, fig.b}
        /\ IF fig.a.x = fig.b.x
           THEN /\ fig.shape.p1.y = Min(fig.a.y, fig.b.y)
                /\ fig.shape.length = Max(fig.a.y, fig.b.y) - Min(fig.a.y, fig.b.y)
           ELSE /\ fig.shape.p1.x = Min(fig.a.x, fig.b.x)
                /\ fig.shape.length = Max(fig.a.x, fig.b.x) - Min(fig.a.x, fig.b.x)
        /\ fig.shape.length >= 0

\* A vertical line built from its lower endpoint first.
C15_Witness ==
    /\ fig.kind = "line"
    /\ fig.a.x = fig.b.x
    /\ fig.a.y > fig.b.y
    /\ fig.shape.p1 = fig.b
    /\ fig.shape.length = fig.a.y - fig.b.y

\* Every cell the figure touches is a cell of the window.
OnSurface(f) == \A q \in f.touched : q.x >= 0 /\ q.x < cols /\ q.y >= 0

\* The cells of the window that show a glyph.
GlyphCells(win) == {c \in DOMAIN win : win[c] # Blank}

\* C16: on a window that was blank, draw writes a glyph to exactly the cells
\* for which the touches of the figure (a Point, an axis-aligned Line or a
\* Rect that lies on the window) is true, and the undraw that follows leaves
\* every cell blank again.
C16_DrawUndraw ==
    (/\ fig.kind # "none"
     /\ fig.kind = "line" => AxisAligned(fig.a, fig.b)
     /\ OnSurface(fig)) =>
        /\ fig.phase # "raised"
        /\ fig.phase = "drawn" => GlyphCells(window) = {Cell(q) : q \in fig.touched}
        /\ fig.phase = "undrawn" => GlyphCells(window) = {}

\* A rect of three columns and three rows or more was drawn and undrawn.
C16_Witness ==
    /\ fig.kind = "rect"
    /\ fig.phase = "undrawn"
    /\ OnSurface(fig)
    /\ fig.contained # {}
    /\ Cardinality(fig.touched) >= 8

\* A Canvas command passed the two size checks and issue_command is over.
CanvasAccepted ==
    /\ cmd.op = "C"
    /\ pc # "issue"
    /\ ~CanvasTooWide(cmd.n[1], cols)
    /\ ~CanvasTooTall(cmd.n[2])

\* The border of the canvas of the command is on the window and what was left
\* of the border of the previous canvas is blank.
BorderReplaced ==
    /\ pc = "loop"
    /\ canvas # None
    /\ CanvasW(canvas) = cmd.n[1]
    /\ CanvasH(canvas) = cmd.n[2]
    /\ \A c \in BorderCells(canvas) : GlyphAt(window, c) = BorderGlyph(canvas, c)
    /\ pre.canvas # None =>
           \A c \in BorderCells(pre.canvas) \ BorderCells(canvas) :
               GlyphAt(window, c) = Blank

\* C17 as stated: after an accepted Canvas command 'C W H' the interpreter is
\* ready for commands on the new canvas, every cell of the new border shows
\* '-' (rows 0 and H+1) or '|' (columns 0 and W+1), and every cell of the
\* previous border that is not on the new border is blank.
C17_CanvasReplaced == CanvasAccepted => BorderReplaced

\* The same for the canvases whose right border is a column of the window.
NarrowerCanvasReplaced ==
    (CanvasAccepted /\ cmd.n[1] + 1 < cols) => BorderReplaced

\* A Fill command was accepted on a canvas and has returned.
FillReturned ==
    /\ pc = "loop"
    /\ cmd.op = "B"
    /\ pre.canvas # None
    /\ ~Warned

\* What bucket_fill, with its neighbours in the order left, up, right, down,
\* makes of the state the command found.
FillInCodeOrder == bucket_fill(pre.canvas, pre.items, pre.window, Seed, cmd.c)

Range(seq) == {seq[i] : i \in 1..Len(seq)}

\* C18: a fill that visits the four neighbours in any order ends with the
\* same glyph on every cell and the same set of registered points as the fill
\* in the order left, up, right, down; lines and rects are registered alike.
C18_OrderIndependent ==
    FillReturned =>
        /\ window = FillInCodeOrder.window
        /\ Range(items.points) = Range(FillInCodeOrder.items.points)
        /\ Len(items.points) = Len(FillInCodeOrder.items.points)
        /\ items.lines = FillInCodeOrder.items.lines
        /\ items.rects = FillInCodeOrder.items.rects

\* A fill in another order painted the cells of its region in another
\* sequence than the code's order does.
C18_Witness ==
    /\ FillReturned
    /\ order # FillOrder
    /\ Len(items.points) >= 6
    /\ items.points # FillInCodeOrder.items.points

\* The border lines of the rect r that touch q.
LinesAt(r, q) == {i \in 1..4 : LineTouches(RectLines(r)[i], q)}

\* C19 as stated: for every Rect built from corners p1, p2 with p1.x < p2.x
\* and p1.y < p2.y and for every canvas Rect built from (0, 0, W, H), each
\* border cell, corners included, belongs to exactly one of the lines l1..l4.
C19_BorderCellsOnOneLine ==
    (\/ fig.kind = "canvas"
     \/ fig.kind = "rect" /\ fig.a.x < fig.b.x /\ fig.a.y < fig.b.y) =>
        \A q \in fig.touched : Cardinality(LinesAt(fig.shape, q)) = 1

\* The same for rects of three rows or more and canvases of one row or more.
TallerRectsShareNoCell ==
    (\/ fig.kind = "canvas" /\ fig.b.y >= 1
     \/ fig.kind = "rect" /\ fig.a.x < fig.b.x /\ fig.a.y + 1 < fig.b.y) =>
        \A q \in fig.touched : Cardinality(LinesAt(fig.shape, q)) = 1

\* C20 as stated: every cell of the border of the canvas of an accepted Canvas
\* command is a cell of the window: its column is one of 0..cols-1 and its
\* row is at most MAX_Y.
C20_BorderOnSurface ==
    CanvasAccepted =>
        \A c \in BorderCells(canvas) : c[1] \in 0..(cols - 1) /\ c[2] <= MAX_Y

\* An accepted Canvas command has replaced a canvas.
CanvasReplaced ==
    /\ cmd.op = "C"
    /\ pc = "loop"
    /\ ~Warned
    /\ pre.canvas # None

\* The interior points of the canvas cv that touch a line or a rect of the
\* registry its.
StaleFigurePoints(cv, its) ==
    {q \in InteriorPoints(cv) :
         \/ \E i \in 1..Len(its.lines) : LineTouches(its.lines[i], q)
         \/ \E i \in 1..Len(its.rects) : RectTouches(its.rects[i], q)}

\* The Fill of the session of SpecStale, which follows the replacement of the
\* canvas, is running or has returned.
FillAfterReplacement ==
    /\ ncmds = Len(StalePattern)
    /\ pc \in {"fill", "loop"}
    /\ cmd.op = "B"
    /\ ~Warned

\* The cells a Fill is to paint from its seed: none from a seed on a border.
RegionToPaint ==
    IF Seed \in FreePoints(pre.canvas, pre.items) THEN FillRegion ELSE {}

\* C21: a Canvas command that replaces a canvas leaves every registered
\* figure in the registry, and a later Fill on the new canvas paints no cell
\* of those figures and stops at them: it paints exactly the cells connected
\* to its seed through cells that no figure and no border touches.
C21_StaleFiguresAreBorders ==
    /\ CanvasReplaced => items = pre.items
    /\ FillAfterReplacement =>
           /\ items.lines = pre.items.lines
           /\ items.rects = pre.items.rects
           /\ \A q \in StaleFigurePoints(canvas, pre.items) :
                  /\ GlyphAt(window, Cell(q)) = GlyphAt(pre.window, Cell(q))
                  /\ q \notin Range(items.points)
           /\ pc = "loop" => Range(items.points) = RegionToPaint

\* A fill on the second canvas painted cells and was kept by the line of the
\* first canvas from other cells that no figure touches.
C21_Witness ==
    /\ FillAfterReplacement
    /\ pc = "loop"
    /\ pre.items.lines # <<>>
    /\ StaleFigurePoints(canvas, pre.items) # {}
    /\ Range(items.points) # {}
    /\ FreePoints(pre.canvas, pre.items) \ Range(items.points) # {}

\* The point figures the command has appended to the registry.
NewPoints == SubSeq(items.points, Len(pre.items.points) + 1, Len(items.points))

\* C22 as stated: a Fill that paints n cells appends exactly n point figures
\* to the registry, one for each painted cell and none for any other cell.
C22_OnePointPerCell ==
    FillReturned =>
        /\ Len(NewPoints) = Cardinality(RegionToPaint)
        /\ Range(NewPoints) = RegionToPaint
        /\ \A i, j \in 1..Len(NewPoints) : NewPoints[i] = NewPoints[j] => i = j

\* What holds instead: every painted cell is registered twice in a row, and no
\* other cell is registered.
EachPaintedCellTwice ==
    FillReturned =>
        /\ Len(NewPoints) = 2 * Cardinality(RegionToPaint)
        /\ Range(NewPoints) = RegionToPaint
        /\ \A i \in 1..Len(NewPoints) :
               NewPoints[i] = NewPoints[IF i % 2 = 1 THEN i + 1 ELSE i - 1]

\* The seed touches a figure of the registry its.
TouchesFigure(its, q) ==
    \/ \E i \in 1..Len(its.lines) : LineTouches(its.lines[i], q)
    \/ \E i \in 1..Len(its.rects) : RectTouches(its.rects[i], q)
    \/ \E i \in 1..Len(its.points) : PointTouches(its.points[i], q)

\* A Fill command whose seed is an interior cell that touches a registered
\* figure has been issued.
FillFromFigure ==
    /\ cmd.op = "B"
    /\ pc # "issue"
    /\ pre.canvas # None
    /\ ~Outside(pre.canvas, Seed)
    /\ TouchesFigure(pre.items, Seed)

\* C23: a Fill whose seed is inside the canvas and touches a registered line,
\* rect or point paints no cell, leaves the registry unchanged and shows no
\* warning (the prompt stays on the status line) and returns to the loop from
\* its first call; so a filled region is not filled again with another glyph.
C23_FillFromFigureIsSilent ==
    FillFromFigure =>
        /\ Untouched
        /\ ~Warned
        /\ msg = Message(PromptText, <<>>, "")
        /\ pc \in {"fill", "loop"}
        /\ pc = "fill" => stack = <<Frame(Seed, "enter")>>

\* A Fill with another glyph from a cell that an earlier Fill painted has
\* returned.
C23_Witness ==
    /\ FillFromFigure
    /\ pc = "loop"
    /\ Seed \in Range(pre.items.points)
    /\ GlyphAt(pre.window, Cell(Seed)) \notin {Blank, cmd.c}

\* C24 as stated: whenever the interpreter waits for a command on a canvas,
\* an interior cell of the canvas shows a glyph if and only if it is a border
\* for _is_border, that is, it touches a registered figure.
C24_VisibleIffBorder ==
    (pc = "loop" /\ canvas # None) =>
        \A q \in InteriorPoints(canvas) :
            GlyphAt(window, Cell(q)) # Blank <=> IsBorder(canvas, items, q)

\* The direction of C24 that is kept: every interior cell that shows a glyph
\* is a border.
VisibleIsBorder ==
    (pc = "loop" /\ canvas # None) =>
        \A q \in InteriorPoints(canvas) :
            GlyphAt(window, Cell(q)) # Blank => IsBorder(canvas, items, q)

\* ---------------------------------------------------------------------- C25
\* The calls of bucket_fill that have not returned: one frame of the stack
\* each.  bucket_fill calls itself on every neighbour the canvas contains and
\* only the callee asks _is_border, so the innermost call may stand on a cell
\* that is already painted.
Depth == Len(stack)

InteriorCells == CanvasW(canvas) * CanvasH(canvas)

\* The calls that have painted their cell and are visiting its neighbours.
Expanding == {i \in 1..Len(stack) : stack[i].at # "enter"}

\* C25 as stated: during any Fill on a canvas 'C W H' the recursion depth
\* never exceeds the number of interior cells W*H.
C25_DepthWithinCells ==
    pc = "fill" => Depth <= InteriorCells

\* C25, amended: during any Fill on a canvas 'C W H' the recursion depth never
\* exceeds W*H + 1: the calls that painted a cell stand on pairwise different
\* interior cells, so there are at most W*H of them, and only the innermost
\* call can be one that has not painted.
C25_DepthWithinCellsPlusOne ==
    pc = "fill" =>
        /\ Depth <= InteriorCells + 1
        /\ Cardinality(Expanding) <= InteriorCells
        /\ \A i \in 1..Len(stack) : stack[i].at = "enter" => i = Len(stack)
        /\ \A i, j \in Expanding : stack[i].point = stack[j].point => i = j

\* A fill of a canvas of at least two cells that is W*H + 1 calls deep.
C25_Witness ==
    /\ pc = "fill"
    /\ InteriorCells >= 2
    /\ Depth = InteriorCells + 1
    /\ Cardinality(Expanding) = InteriorCells

====
